---- MODULE Spec2Model ----
(***************************************************************************)
(* Verification model of the blocked-CSR matrix kernels                    *)
(* (opm/simulators/linalg/bda/BlockedMatrix.cpp) and of the lifecycle of   *)
(* the accelerated solver backend (FPGASolverBackend.hpp).                 *)
(*                                                                         *)
(* The module holds several independent specifications, one per           *)
(* component; a component that a specification does not exercise keeps    *)
(* its variables at their idle value.                                      *)
(*   SpecSort     sortBlockedRow on one row of a column/block array        *)
(*   SpecHeap     allocate / free / soft copy of BlockedMatrix objects     *)
(*   SpecBlock    blockMultSub and blockMult on blocks in memory           *)
(*   SpecInv      blockInvert3x3                                           *)
(*   SpecBackend  the lifecycle of one solver backend instance             *)
(*   SpecReorder  the reorder engine (levels, colours, permutation)        *)
(*   SpecBicg     the Krylov loop of solve_system                          *)
(*   SpecNnc      sortNncAndApplyEditnnc (ebos/nncsorter.cpp)              *)
(*   SpecPetsc    LinearSolverPetsc::solve                                 *)
(*   SpecGridMgr  EclCpGridManager: create, release, destroy               *)
(***************************************************************************)
EXTENDS Integers, Sequences, FiniteSets, TLC

VARIABLES
    colIndices,   \* int *colIndices     : [0..MaxLen-1 -> column]
    data,         \* Block *data         : [0..MaxLen-1 -> block]
    sortCall,     \* the sortBlockedRow call observed: arguments, pre-state, footprint
    heap,         \* the free store: arrays, BlockedMatrix structs, the callers' handles
    copyOf,       \* handle -> the handle it was soft-copied from (while both are unfreed)
    heapCall,     \* the last matrix call observed: operation and arguments
    blk,          \* the blocks a block kernel is called on: [BlockId -> Block]
    blkCall,      \* the block kernel call observed: kernel, arguments, blocks before it
    invCall,      \* the blockInvert3x3 call observed: mat and what the call computed
    backend,      \* one solver backend instance: lifecycle state, system, permutation
    beTrace,      \* the lifecycle operations the instance has carried out, in order
    beCall,       \* the last lifecycle call observed: operation, outcome, state before
    reorder,      \* one run of the reorder engine: pattern, strategy, groups, permutation
    bicg,         \* one solve_system call of a backend: the Krylov loop and its result
    nnc,          \* one sortNncAndApplyEditnnc call: arguments, locals, position, log
    petsc,        \* one LinearSolverPetsc::solve call: what KSP did, the report
    gridMgr       \* one EclCpGridManager: its four pointers and the objects they own

sortVars  == <<colIndices, data, sortCall>>
heapVars  == <<heap, copyOf, heapCall>>
blockVars == <<blk, blkCall>>
invVars   == <<invCall>>
beVars    == <<backend, beTrace, beCall>>
newVars   == <<reorder, bicg, nnc, petsc, gridMgr>>

vars == <<colIndices, data, sortCall, heap, copyOf, heapCall, blk, blkCall, invCall,
          backend, beTrace, beCall, reorder, bicg, nnc, petsc, gridMgr>>

\* What the actions of one component leave unchanged.
notSort    == <<heapVars, blockVars, invVars, beVars, newVars>>
notHeap    == <<sortVars, blockVars, invVars, beVars, newVars>>
notBlock   == <<sortVars, heapVars, invVars, beVars, newVars>>
notInv     == <<sortVars, heapVars, blockVars, beVars, newVars>>
notBackend == <<sortVars, heapVars, blockVars, invVars, newVars>>
oldVars    == <<sortVars, heapVars, blockVars, invVars, beVars>>
notReorder == <<oldVars, bicg, nnc, petsc, gridMgr>>
notBicg    == <<oldVars, reorder, nnc, petsc, gridMgr>>
notNnc     == <<oldVars, reorder, bicg, petsc, gridMgr>>
notPetsc   == <<oldVars, reorder, bicg, nnc, gridMgr>>
notGridMgr == <<oldVars, reorder, bicg, nnc, petsc>>

Min(a, b) == IF a < b THEN a ELSE b
Max(a, b) == IF a > b THEN a ELSE b

(***************************************************************************)
(* sortBlockedRow                                                          *)
(***************************************************************************)
MaxLen == 4      \* length of the colIndices/data arrays
MaxCol == 3      \* columns are 0..MaxCol
StackFrames == 6 \* activation frames of sortBlockedRow the stack has room for

Index == 0 .. (MaxLen - 1)
Cols  == 0 .. MaxCol

\* A block is copied as a whole (memcpy of BLOCK_SIZE*BLOCK_SIZE doubles); the
\* sort never looks inside it, so a block is identified by the tag of the
\* position it was stored at before the call.
BlockTag == Index

\* The exchange inside the partition loop: columns l and r are swapped and the
\* three memcpy's swap the blocks l and r through lDatum.
SwapColsOnly(s, l, r) ==
    [s EXCEPT !.c = [s.c EXCEPT ![l] = s.c[r], ![r] = s.c[l]],
              !.l = l + 1, !.r = r - 1]

\* The exchange with the r-- left out.
SwapNoRetreat(s, l, r) ==
    [s EXCEPT !.c = [s.c EXCEPT ![l] = s.c[r], ![r] = s.c[l]],
              !.d = [s.d EXCEPT ![l] = s.d[r], ![r] = s.d[l]],
              !.l = l + 1]

SwapAt(s, l, r) ==
    [s EXCEPT !.c = [s.c EXCEPT ![l] = s.c[r], ![r] = s.c[l]],
              !.d = [s.d EXCEPT ![l] = s.d[r], ![r] = s.d[l]],
              !.l = l + 1, !.r = r - 1]

\* The left scan with <= in place of <: it does not stop at the pivot.
RECURSIVE ScanLInclusive(_, _, _)
ScanLInclusive(c, l, middle) ==
    IF l \in DOMAIN c /\ c[l] <= middle THEN ScanLInclusive(c, l + 1, middle) ELSE l

\* while (colIndices[l] < middle) l++;   A read outside the array stops the
\* scan at that index (the footprint then shows the index that was read).
RECURSIVE ScanL(_, _, _)
ScanL(c, l, middle) ==
    IF l \in DOMAIN c /\ c[l] < middle THEN ScanL(c, l + 1, middle) ELSE l

\* while (colIndices[r] > middle) r--;
RECURSIVE ScanR(_, _, _)
ScanR(c, r, middle) ==
    IF r \in DOMAIN c /\ c[r] > middle THEN ScanR(c, r - 1, middle) ELSE r

\* do { scan; scan; if (l <= r) { exchange; l++; r--; } } while (l < r);
\* s = [c, d, l, r, lo, hi]: lo/hi are the least/greatest index accessed.
RECURSIVE Partition(_, _)
Partition(s, middle) ==
    LET l1 == ScanL(s.c, s.l, middle)
        r1 == ScanR(s.c, s.r, middle)
        t  == [s EXCEPT !.lo = Min(s.lo, r1), !.hi = Max(s.hi, l1)]
        s1 == IF l1 <= r1 THEN SwapAt(t, l1, r1)
                          ELSE [t EXCEPT !.l = l1, !.r = r1]
    IN  IF s1.l < s1.r THEN Partition(s1, middle) ELSE s1

\* void sortBlockedRow(int *colIndices, Block *data, int left, int right)
\* entered with room for `stack` more activation frames. Result: the arrays
\* on return, the footprint [lo, hi] of all accesses, the depth of the
\* recursion (1 for a call that does not recurse), whether every recursive
\* call was made on a range strictly shorter than its caller's, and whether
\* the recursion ran out of stack.
RECURSIVE sortBlockedRowFrom(_, _, _, _, _)
sortBlockedRowFrom(c, d, lft, rgt, stack) ==
    IF stack = 0
    THEN [c |-> c, d |-> d, lo |-> lft, hi |-> rgt, depth |-> 0,
          shorter |-> TRUE, overflow |-> TRUE]
    ELSE
    LET mid    == (lft + rgt) \div 2          \* (l + r) >> 1
        middle == c[mid]
        p == Partition([c |-> c, d |-> d, l |-> lft, r |-> rgt,
                        lo |-> lft, hi |-> rgt], middle)
        none(x) == [c |-> x.c, d |-> x.d, lo |-> x.lo, hi |-> x.hi, depth |-> 0,
                    shorter |-> TRUE, overflow |-> FALSE]
        a == IF lft < p.r
                THEN sortBlockedRowFrom(p.c, p.d, lft, p.r, stack - 1)
                ELSE none(p)
        b == IF rgt > p.l
                THEN sortBlockedRowFrom(a.c, a.d, p.l, rgt, stack - 1)
                ELSE none(a)
    IN  [c |-> b.c, d |-> b.d,
         lo |-> Min(p.lo, Min(a.lo, b.lo)),
         hi |-> Max(p.hi, Max(a.hi, b.hi)),
         depth |-> 1 + Max(a.depth, b.depth),
         shorter |-> /\ a.shorter /\ b.shorter
                     /\ (lft < p.r => p.r - lft < rgt - lft)
                     /\ (rgt > p.l => rgt - p.l < rgt - lft),
         overflow |-> a.overflow \/ b.overflow]

sortBlockedRow(c, d, lft, rgt) == sortBlockedRowFrom(c, d, lft, rgt, StackFrames)

NoSortCall == [done |-> FALSE]

InitSort ==
    /\ colIndices \in [Index -> Cols]
    /\ data = [i \in Index |-> i]
    /\ sortCall = NoSortCall

IdleSort ==
    /\ colIndices = [i \in Index |-> 0]
    /\ data = [i \in Index |-> i]
    /\ sortCall = NoSortCall

\* One call sortBlockedRow(colIndices, data, left, right), left <= right.
CallSortBlockedRow ==
    /\ ~sortCall.done
    /\ \E lft \in Index, rgt \in Index :
          /\ lft <= rgt
          /\ LET res == sortBlockedRow(colIndices, data, lft, rgt)
             IN  /\ colIndices' = res.c
                 /\ data' = res.d
                 /\ sortCall' = [done |-> TRUE, left |-> lft, right |-> rgt,
                                 oldCols |-> colIndices, oldData |-> data,
                                 lo |-> res.lo, hi |-> res.hi, depth |-> res.depth,
                                 shorter |-> res.shorter,
                                 overflow |-> res.overflow]
    /\ UNCHANGED notSort

\* Helpers for the claims about the row sort.
Range(call) == call.left .. call.right

DistinctIn(c, S) == \A i, j \in S : i # j => c[i] # c[j]

\* C1: for left <= right and pairwise distinct columns in
\* colIndices[left..right], on return the range is strictly ascending, is a
\* permutation of the columns it held before, and data[k] is the block that
\* was paired with column colIndices[k] before the call.
C1_SortedPermutation ==
    (sortCall.done /\ DistinctIn(sortCall.oldCols, Range(sortCall))) =>
        /\ \A i, j \in Range(sortCall) : i < j => colIndices[i] < colIndices[j]
        /\ {colIndices[k] : k \in Range(sortCall)}
              = {sortCall.oldCols[k] : k \in Range(sortCall)}
        /\ \A k \in Range(sortCall) :
              \E j \in Range(sortCall) :
                  /\ sortCall.oldCols[j] = colIndices[k]
                  /\ sortCall.oldData[j] = data[k]

\* Witness of C1: a call on a range of at least three distinct columns that
\* were not in ascending order, so the sort had to move columns and blocks.
C1_Witness ==
    /\ sortCall.done
    /\ sortCall.right - sortCall.left >= 2
    /\ DistinctIn(sortCall.oldCols, Range(sortCall))
    /\ sortCall.oldCols[sortCall.left] > sortCall.oldCols[sortCall.right]
    /\ colIndices # sortCall.oldCols
    /\ data # sortCall.oldData

\* C16: for every call with left <= right (duplicate columns included) no
\* index below left or above right of colIndices or data is read or written
\* at any recursion depth, and every colIndices[k] and data[k] with k outside
\* [left, right] is unchanged on return.
C16_InPlaceOnRange ==
    sortCall.done =>
        /\ sortCall.left <= sortCall.lo
        /\ sortCall.hi <= sortCall.right
        /\ \A k \in Index \ Range(sortCall) :
              /\ colIndices[k] = sortCall.oldCols[k]
              /\ data[k] = sortCall.oldData[k]

\* Witness of C16: a call on a range of three or more entries that holds a
\* duplicate column and ends before the end of the array, next to a column
\* smaller than any of the range; the call recursed and moved blocks.
C16_Witness ==
    /\ sortCall.done
    /\ sortCall.right < MaxLen - 1
    /\ sortCall.right - sortCall.left >= 2
    /\ ~DistinctIn(sortCall.oldCols, Range(sortCall))
    /\ \A k \in Range(sortCall) :
          sortCall.oldCols[sortCall.right + 1] < sortCall.oldCols[k]
    /\ data # sortCall.oldData
    /\ sortCall.depth >= 2

\* C17: the call terminates for every input with left <= right; each
\* recursive call is made on a sub-range strictly shorter than its caller's,
\* so the number of nested recursive calls below the first never exceeds
\* right - left (and the stack is never exhausted).
C17_DepthBounded ==
    sortCall.done =>
        /\ ~sortCall.overflow
        /\ sortCall.shorter
        /\ sortCall.depth - 1 <= sortCall.right - sortCall.left

\* Witness of C17: a row with duplicate columns on which the recursion
\* nested two calls below the first.
C17_Witness ==
    /\ sortCall.done
    /\ sortCall.left = 0 /\ sortCall.right = MaxLen - 1
    /\ ~DistinctIn(sortCall.oldCols, Index)
    /\ sortCall.depth >= 3


(***************************************************************************)
(* allocateBlockedMatrix / freeBlockedMatrix / soft_copyBlockedMatrix      *)
(***************************************************************************)
MaxNb      == 1    \* allocate is called with Nb in 0..MaxNb
MaxNnzb    == 1    \* ... and nnzbs in 0..MaxNnzb
MaxGarbage == 1    \* storage that was never written reads as a value 0..MaxGarbage
MaxStructs == 2    \* BlockedMatrix objects created in one run
MaxStores  == 1    \* stores into the arrays made by the callers in one run

NULL == 0
Handle == {"mat", "res"}              \* the callers' BlockedMatrix* variables
Field  == {"nnzValues", "colIndices", "rowPointers"}
Cell   == 0 .. MaxGarbage

\* heap.arrays  : sequence of array objects, an array's address is its index;
\*                [len, cells, live, released]  (released counts the delete[]s)
\* heap.structs : sequence of BlockedMatrix objects
\*                [nnzValues, colIndices, rowPointers, Nb, nnzbs, live]
\* heap.handles : [Handle -> address of a struct, or NULL]
\* heap.crashed : a delete[] of storage that was already released is undefined
\*                behaviour; the run either goes on or is aborted by the allocator
\* heap.stores  : number of stores made so far
EmptyHeap ==
    [arrays |-> << >>, structs |-> << >>,
     handles |-> [h \in Handle |-> NULL], crashed |-> FALSE, stores |-> 0]

\* new T[n]: default-initialised storage. The values of the cells are
\* indeterminate; every cell reads as the value g the storage held before.
NewArray(n, g) ==
    [len |-> n, cells |-> [i \in 0 .. (n - 1) |-> g], live |-> TRUE, released |-> 0]

\* The same allocation with an array of Nb entries for the row pointers.
allocateShortRowPointers(hp, h, Nb, nnzbs, g) ==
    LET a == Len(hp.arrays)
        m == [nnzValues |-> a + 1, colIndices |-> a + 2, rowPointers |-> a + 3,
              Nb |-> Nb, nnzbs |-> nnzbs, live |-> TRUE]
    IN  [hp EXCEPT
            !.arrays  = hp.arrays \o << NewArray(nnzbs, g), NewArray(nnzbs, g),
                                        NewArray(Nb, g) >>,
            !.structs = Append(hp.structs, m),
            !.handles = [hp.handles EXCEPT ![h] = Len(hp.structs) + 1]]

\* BlockedMatrix *allocateBlockedMatrix(int Nb, int nnzbs), result stored in h.
\* g is the value the fresh storage happens to hold.
allocateBlockedMatrix(hp, h, Nb, nnzbs, g) ==
    LET a == Len(hp.arrays)
        m == [nnzValues |-> a + 1, colIndices |-> a + 2, rowPointers |-> a + 3,
              Nb |-> Nb, nnzbs |-> nnzbs, live |-> TRUE]
    IN  [hp EXCEPT
            !.arrays  = hp.arrays \o << NewArray(nnzbs, g), NewArray(nnzbs, g),
                                        NewArray(Nb + 1, g) >>,
            !.structs = Append(hp.structs, m),
            !.handles = [hp.handles EXCEPT ![h] = Len(hp.structs) + 1]]

\* delete[] p: the storage goes back to the allocator, its contents are gone.
DeleteArray(arrs, p) ==
    [arrs EXCEPT ![p].live = FALSE, ![p].released = @ + 1, ![p].cells = << >>]

\* A free that releases the arrays but leaves the caller's handle as it was.
freeKeepHandle(hp, h, crash) ==
    LET m == hp.handles[h] IN
    IF m # NULL
       THEN LET s  == hp.structs[m]
                a1 == DeleteArray(hp.arrays, s.nnzValues)
                a2 == DeleteArray(a1, s.colIndices)
                a3 == DeleteArray(a2, s.rowPointers)
            IN  [hp EXCEPT !.arrays = a3, !.structs[m].live = FALSE]
       ELSE hp

\* void freeBlockedMatrix(BlockedMatrix **mat), called with &h.
\* crash: whether a delete[] of already released storage aborts the run.
freeBlockedMatrix(hp, h, crash) ==
    LET m == hp.handles[h] IN
    IF m # NULL
       THEN LET s  == hp.structs[m]
                twice == \E f \in Field : ~hp.arrays[s[f]].live
                a1 == DeleteArray(hp.arrays, s.nnzValues)
                a2 == DeleteArray(a1, s.colIndices)
                a3 == DeleteArray(a2, s.rowPointers)
            IN  IF twice /\ crash
                   THEN [hp EXCEPT !.arrays = a3, !.crashed = TRUE]
                   ELSE [hp EXCEPT !.arrays = a3,
                                   !.structs[m].live = FALSE,
                                   !.handles[h] = NULL]
       ELSE hp

\* A copy that allocates arrays of its own and copies the contents.
deep_copyBlockedMatrix(hp, src, dst) ==
    LET s == hp.structs[hp.handles[src]]
        a == Len(hp.arrays)
        r == [nnzValues |-> a + 1, colIndices |-> a + 2, rowPointers |-> a + 3,
              Nb |-> s.Nb, nnzbs |-> s.nnzbs, live |-> TRUE]
    IN  [hp EXCEPT
            !.arrays  = hp.arrays \o << hp.arrays[s.nnzValues], hp.arrays[s.colIndices],
                                        hp.arrays[s.rowPointers] >>,
            !.structs = Append(hp.structs, r),
            !.handles = [hp.handles EXCEPT ![dst] = Len(hp.structs) + 1]]

\* BlockedMatrix *soft_copyBlockedMatrix(BlockedMatrix *mat), dst = soft_copy(src)
soft_copyBlockedMatrix(hp, src, dst) ==
    LET s == hp.structs[hp.handles[src]]
        r == [nnzValues |-> s.nnzValues, colIndices |-> s.colIndices,
              rowPointers |-> s.rowPointers,
              Nb |-> s.Nb, nnzbs |-> s.nnzbs, live |-> TRUE]
    IN  [hp EXCEPT
            !.structs = Append(hp.structs, r),
            !.handles = [hp.handles EXCEPT ![dst] = Len(hp.structs) + 1]]

\* *h, the BlockedMatrix a handle points to
StructOf(h) == heap.structs[heap.handles[h]]

\* The array object behind h->f
ArrayOf(hp, h, f) == hp.arrays[hp.structs[hp.handles[h]][f]]

\* h->f[k] = v, a store through a matrix into one of its arrays
StoreCell(hp, h, f, k, v) ==
    [hp EXCEPT !.arrays[hp.structs[hp.handles[h]][f]].cells[k] = v,
               !.stores = @ + 1]

\* h->f[k], a load through a matrix
LoadCell(hp, h, f, k) == ArrayOf(hp, h, f).cells[k]

NoHeapCall == [op |-> "none", h |-> "none"]

InitHeap ==
    /\ heap = EmptyHeap
    /\ copyOf = [h \in Handle |-> "none"]
    /\ heapCall = NoHeapCall

IdleHeap == InitHeap

\* mat = allocateBlockedMatrix(Nb, nnzbs)
Allocate ==
    /\ ~heap.crashed
    /\ Len(heap.structs) < MaxStructs
    /\ heap.handles["mat"] = NULL
    /\ \E Nb \in 0 .. MaxNb, nnzbs \in 0 .. MaxNnzb, g \in Cell :
          /\ heap' = allocateBlockedMatrix(heap, "mat", Nb, nnzbs, g)
          /\ heapCall' = [op |-> "allocate", h |-> "mat", Nb |-> Nb, nnzbs |-> nnzbs,
                          arraysBefore |-> Len(heap.arrays)]
    /\ UNCHANGED copyOf
    /\ UNCHANGED notHeap

\* res = soft_copyBlockedMatrix(mat)
SoftCopy ==
    /\ ~heap.crashed
    /\ Len(heap.structs) < MaxStructs
    /\ heap.handles["mat"] # NULL
    /\ heap.handles["res"] = NULL
    /\ heap' = soft_copyBlockedMatrix(heap, "mat", "res")
    /\ copyOf' = [copyOf EXCEPT !["res"] = "mat"]
    /\ heapCall' = [op |-> "soft_copy", h |-> "res", src |-> "mat",
                    arraysBefore |-> Len(heap.arrays)]
    /\ UNCHANGED notHeap

\* freeBlockedMatrix(&h): frees whatever h points to, also when h is NULL
\* already and also when h is a soft copy.
Free ==
    /\ ~heap.crashed
    /\ \E h \in Handle, crash \in BOOLEAN :
          /\ heap' = freeBlockedMatrix(heap, h, crash)
          /\ copyOf' = [x \in Handle |->
                          IF heap.handles[h] # NULL /\ (x = h \/ copyOf[x] = h)
                             THEN "none" ELSE copyOf[x]]
          /\ heapCall' = [op |-> "free", h |-> h, wasNull |-> (heap.handles[h] = NULL)]
    /\ UNCHANGED notHeap

\* A caller writes one cell of one array through a matrix it holds.
Store ==
    /\ ~heap.crashed
    /\ heap.stores < MaxStores
    /\ \E h \in Handle, f \in Field, v \in Cell :
          /\ heap.handles[h] # NULL
          /\ ArrayOf(heap, h, f).live
          /\ \E k \in 0 .. (ArrayOf(heap, h, f).len - 1) :
                /\ heap' = StoreCell(heap, h, f, k, v)
                /\ heapCall' = [op |-> "store", h |-> h, f |-> f, k |-> k, v |-> v]
    /\ UNCHANGED copyOf
    /\ UNCHANGED notHeap

NextHeap == Allocate \/ SoftCopy \/ Free \/ Store

(***************************************************************************)
(* blockMultSub / blockMult                                                *)
(***************************************************************************)
BLOCK_SIZE == 3
MaxEntry   == 1    \* block entries are integers -1..MaxEntry

Dim      == 0 .. (BLOCK_SIZE - 1)
BlockIdx == 0 .. (BLOCK_SIZE * BLOCK_SIZE - 1)      \* a Block is double[9], row-major
Entries  == (-1) .. MaxEntry
BlockId  == 1 .. 3                                  \* the Block pointers passed around

\* An inner loop that reads c[BLOCK_SIZE * col + k] (c taken column-major).
RECURSIVE TempTransposed(_, _, _, _, _)
TempTransposed(b, c, row, col, from) ==
    IF from >= BLOCK_SIZE
       THEN 0
       ELSE b[BLOCK_SIZE * row + from] * c[BLOCK_SIZE * col + from]
               + TempTransposed(b, c, row, col, from + 1)

\* The inner loop over k: temp += b[BLOCK_SIZE * row + k] * c[BLOCK_SIZE * k + col],
\* started at temp = 0 and run for k = from .. BLOCK_SIZE-1.
RECURSIVE Temp(_, _, _, _, _)
Temp(b, c, row, col, from) ==
    IF from >= BLOCK_SIZE
       THEN 0
       ELSE b[BLOCK_SIZE * row + from] * c[BLOCK_SIZE * from + col]
               + Temp(b, c, row, col, from + 1)

\* One pass of the two outer loops of blockMultSub, from entry p on. The blocks
\* are read where they lie when the entry is computed, so a write to a is seen
\* by later reads of b or c when a aliases them.
RECURSIVE MultSubFrom(_, _, _, _, _)
MultSubFrom(m, a, b, c, p) ==
    IF p >= BLOCK_SIZE * BLOCK_SIZE
       THEN m
       ELSE LET row == p \div BLOCK_SIZE
                col == p % BLOCK_SIZE
                temp == Temp(m[b], m[c], row, col, 0)
            IN  MultSubFrom([m EXCEPT ![a][p] = @ - temp], a, b, c, p + 1)

\* void blockMultSub(Block a, Block b, Block c):  a = a - (b * c)
blockMultSub(m, a, b, c) == MultSubFrom(m, a, b, c, 0)

RECURSIVE MultFrom(_, _, _, _, _)
MultFrom(m, mat1, mat2, resMat, p) ==
    IF p >= BLOCK_SIZE * BLOCK_SIZE
       THEN m
       ELSE LET row == p \div BLOCK_SIZE
                col == p % BLOCK_SIZE
                temp == Temp(m[mat1], m[mat2], row, col, 0)
            IN  MultFrom([m EXCEPT ![resMat][p] = temp], mat1, mat2, resMat, p + 1)

\* void blockMult(Block mat1, Block mat2, Block resMat)
blockMult(m, mat1, mat2, resMat) == MultFrom(m, mat1, mat2, resMat, 0)

ZeroBlock == [p \in BlockIdx |-> 0]

\* Blocks with at most two entries different from zero.
SparseBlocks ==
    {[p \in BlockIdx |-> IF p = i THEN v ELSE IF p = j THEN w ELSE 0] :
        i \in BlockIdx, j \in BlockIdx, v \in Entries, w \in Entries}

\* Blocks with one value in every entry, and the block 0, 1, ..., 8.
DenseBlocks ==
    {[p \in BlockIdx |-> v] : v \in Entries} \cup {[p \in BlockIdx |-> p]}

\* Single-entry blocks and dense blocks.
MixedBlocks ==
    {[p \in BlockIdx |-> IF p = i THEN v ELSE 0] : i \in BlockIdx, v \in Entries}
       \cup DenseBlocks

NoBlkCall == [op |-> "none"]

InitBlock ==
    /\ blk \in {[i \in BlockId |-> IF i = 1 THEN a ELSE IF i = 2 THEN b ELSE c] :
                  a \in DenseBlocks, b \in SparseBlocks, c \in MixedBlocks}
    /\ blkCall = NoBlkCall

IdleBlock ==
    /\ blk = [i \in BlockId |-> ZeroBlock]
    /\ blkCall = NoBlkCall

\* The argument triples the kernels are called with: three different blocks,
\* or a aliasing b, or a aliasing c.
ArgTriples == {<<1, 2, 3>>, <<1, 1, 3>>, <<1, 3, 1>>}

\* blockMultSub(a, b, c)
CallBlockMultSub ==
    /\ blkCall.op = "none"
    /\ \E t \in ArgTriples :
          /\ blk' = blockMultSub(blk, t[1], t[2], t[3])
          /\ blkCall' = [op |-> "blockMultSub", a |-> t[1], b |-> t[2], c |-> t[3],
                         old |-> blk]
    /\ UNCHANGED notBlock

\* blockMult(b, c, a): the product of blocks 2 and 3 written to block 1
CallBlockMult ==
    /\ blkCall.op = "none"
    /\ blk' = blockMult(blk, 2, 3, 1)
    /\ blkCall' = [op |-> "blockMult", a |-> 1, b |-> 2, c |-> 3, old |-> blk]
    /\ UNCHANGED notBlock

NextBlock == CallBlockMultSub \/ CallBlockMult

(***************************************************************************)
(* blockInvert3x3                                                          *)
(***************************************************************************)
\* A double computed from integer entries: a quotient num/den (den # 0), or
\* one of the non-finite values of IEEE arithmetic.
Finite(n, d) == [kind |-> "finite", num |-> n, den |-> d]
Inf == [kind |-> "inf"]
NaN == [kind |-> "nan"]

\* double t17 = 1.0 / det;
Reciprocal(det) == IF det = 0 THEN Inf ELSE Finite(1, det)

\* x * t17 for an integer-valued x
Scale(x, t17) ==
    IF t17.kind = "finite" THEN Finite(x * t17.num, t17.den)
    ELSE IF x = 0 THEN NaN ELSE Inf

\* det = t4*mat[8] - t6*mat[7] - t8*mat[8] + t10*mat[7] + t12*mat[5] - t14*mat[4]
Determinant(mat) ==
    LET t4  == mat[0] * mat[4]
        t6  == mat[0] * mat[5]
        t8  == mat[1] * mat[3]
        t10 == mat[2] * mat[3]
        t12 == mat[1] * mat[6]
        t14 == mat[2] * mat[6]
    IN  t4 * mat[8] - t6 * mat[7] - t8 * mat[8]
          + t10 * mat[7] + t12 * mat[5] - t14 * mat[4]

\* The nine expressions with the sign of res[5] lost.
CofactorsSignSlip(mat) ==
    LET t4  == mat[0] * mat[4]
        t6  == mat[0] * mat[5]
        t8  == mat[1] * mat[3]
        t10 == mat[2] * mat[3]
        t12 == mat[1] * mat[6]
        t14 == mat[2] * mat[6]
    IN  [p \in BlockIdx |->
           CASE p = 0 ->  (mat[4] * mat[8] - mat[5] * mat[7])
             [] p = 1 -> -(mat[1] * mat[8] - mat[2] * mat[7])
             [] p = 2 ->  (mat[1] * mat[5] - mat[2] * mat[4])
             [] p = 3 -> -(mat[3] * mat[8] - mat[5] * mat[6])
             [] p = 4 ->  (mat[0] * mat[8] - t14)
             [] p = 5 ->  (t6 - t10)
             [] p = 6 ->  (mat[3] * mat[7] - mat[4] * mat[6])
             [] p = 7 -> -(mat[0] * mat[7] - t12)
             [] p = 8 ->  (t4 - t8)]

\* The nine expressions that are multiplied by t17 to give res[0..8].
Cofactors(mat) ==
    LET t4  == mat[0] * mat[4]
        t6  == mat[0] * mat[5]
        t8  == mat[1] * mat[3]
        t10 == mat[2] * mat[3]
        t12 == mat[1] * mat[6]
        t14 == mat[2] * mat[6]
    IN  [p \in BlockIdx |->
           CASE p = 0 ->  (mat[4] * mat[8] - mat[5] * mat[7])
             [] p = 1 -> -(mat[1] * mat[8] - mat[2] * mat[7])
             [] p = 2 ->  (mat[1] * mat[5] - mat[2] * mat[4])
             [] p = 3 -> -(mat[3] * mat[8] - mat[5] * mat[6])
             [] p = 4 ->  (mat[0] * mat[8] - t14)
             [] p = 5 -> -(t6 - t10)
             [] p = 6 ->  (mat[3] * mat[7] - mat[4] * mat[6])
             [] p = 7 -> -(mat[0] * mat[7] - t12)
             [] p = 8 ->  (t4 - t8)]

\* void blockInvert3x3(Block mat, Block res)
\* The function has no return value, throws nothing and tests nothing: there
\* is no path on which it reports a breakdown. The division 1.0 / det with
\* det = 0 gives a non-finite t17 when floating-point traps are masked (the
\* default) and ends the run with SIGFPE when they are enabled (trap).
blockInvert3x3(mat, trap) ==
    LET det == Determinant(mat)
        cof == Cofactors(mat)
        t17 == Reciprocal(det)
    IN  [done |-> TRUE, mat |-> mat, det |-> det, cof |-> cof,
         breakdown |-> FALSE,
         returned |-> ~(det = 0 /\ trap),
         res |-> IF det = 0 /\ trap
                    THEN [p \in BlockIdx |-> NaN]
                    ELSE [p \in BlockIdx |-> Scale(cof[p], t17)]]

NoInvCall(mat) == [done |-> FALSE, mat |-> mat]

InitInv == invCall \in {NoInvCall(mat) : mat \in [BlockIdx -> Entries]}

IdleInv == invCall = NoInvCall(ZeroBlock)

\* blockInvert3x3(mat, res)
CallBlockInvert3x3 ==
    /\ ~invCall.done
    /\ \E trap \in BOOLEAN : invCall' = blockInvert3x3(invCall.mat, trap)
    /\ UNCHANGED notInv

NextInv == CallBlockInvert3x3

(***************************************************************************)
(* The backend lifecycle (FpgaSolverBackend and the other variants).       *)
(* The header declares the operations and the fields initialized,          *)
(* analysis_done, fromOrder, toOrder and prec; the bodies of the           *)
(* operations are not part of the sources at hand, so the state machine    *)
(* below follows the documented contract of the backends: section 4.4      *)
(* (states and transitions), section 5 (ordering) and section 7 (errors).  *)
(***************************************************************************)
MaxOps  == 8     \* lifecycle operations one instance carries out in a run
MaxVal  == 1     \* matrix values and right-hand sides are 0..MaxVal
MaxRows == 2     \* block rows of the system, the permutation is over 0..MaxRows-1

Vals  == 0 .. MaxVal
Rows  == 0 .. (MaxRows - 1)
Perms == {f \in [Rows -> Rows] : \A i, j \in Rows : i # j => f[i] # f[j]}
InverseOf(f) == [i \in Rows |-> CHOOSE j \in Rows : f[j] = i]
NoOrder == << >>                                \* fromOrder/toOrder == nullptr

LifecycleOps ==
    {"initialize", "analyse_matrix", "create_preconditioner", "solve_system",
     "update_system"}

NewBackend ==
    [state |-> "Uninitialized",
     values |-> 0, rhs |-> 0,
     fromOrder |-> NoOrder, toOrder |-> NoOrder,
     prec |-> "none",        \* the values the preconditioner was built from
     inits |-> 0,            \* times initialize was performed
     analyses |-> 0,         \* times the analysis was run
     krylov |-> 0]           \* times the Krylov iteration was executed

\* A call that violates the contract: nothing is executed.
Reject(b) == [b |-> b, outcome |-> "ContractError", ran |-> FALSE]

\* An initialize that is performed whatever the state.
initializeAnyState(b, vals, ok) ==
    IF ok
       THEN [b |-> [b EXCEPT !.state = "Initialized", !.values = vals,
                             !.inits = @ + 1],
             outcome |-> "Ok", ran |-> TRUE]
       ELSE [b |-> [b EXCEPT !.state = "Failed", !.inits = @ + 1],
             outcome |-> "HardwareError", ran |-> FALSE]

\* initialize(N, nnz, dim, vals, rows, cols): Uninitialized -> Initialized.
\* ok = FALSE: the device or the structure of the matrix is refused (fatal).
initialize(b, vals, ok) ==
    IF b.state # "Uninitialized" THEN Reject(b)
    ELSE IF ok
       THEN [b |-> [b EXCEPT !.state = "Initialized", !.values = vals,
                             !.inits = @ + 1],
             outcome |-> "Ok", ran |-> TRUE]
       ELSE [b |-> [b EXCEPT !.state = "Failed", !.inits = @ + 1],
             outcome |-> "HardwareError", ran |-> FALSE]

\* analyse_matrix(): Initialized -> AnalysisDone, builds fromOrder/toOrder.
\* ok = FALSE: the analysis fails (AnalysisFailed, fatal for the instance).
analyse_matrix(b, perm, ok) ==
    IF b.state # "Initialized" THEN Reject(b)
    ELSE IF ok
       THEN [b |-> [b EXCEPT !.state = "AnalysisDone", !.analyses = @ + 1,
                             !.fromOrder = perm, !.toOrder = InverseOf(perm)],
             outcome |-> "Ok", ran |-> TRUE]
       ELSE [b |-> [b EXCEPT !.state = "Failed", !.analyses = @ + 1],
             outcome |-> "AnalysisFailed", ran |-> FALSE]

\* create_preconditioner(): AnalysisDone -> PreconditionerReady, builds the
\* ILU(0) factors from the current values. ok = FALSE: a diagonal block is
\* singular (PreconditionerFailed), no preconditioner is built.
create_preconditioner(b, ok) ==
    IF b.state # "AnalysisDone" THEN Reject(b)
    ELSE IF ok
       THEN [b |-> [b EXCEPT !.state = "PreconditionerReady", !.prec = b.values],
             outcome |-> "Ok", ran |-> TRUE]
       ELSE [b |-> b, outcome |-> "PreconditionerFailed", ran |-> FALSE]

\* A solve_system that runs the Krylov loop in whatever state it is called.
solve_systemUnchecked(b, converged) ==
    [b |-> [b EXCEPT !.state = "Solved", !.krylov = @ + 1],
     outcome |-> IF converged THEN "Success" ELSE "IterationFailed",
     ran |-> TRUE]

\* solve_system(res): PreconditionerReady -> Solved, runs the Krylov loop.
\* Reaching maxit is reported through the result (IterationFailed).
solve_system(b, converged) ==
    IF b.state # "PreconditionerReady" THEN Reject(b)
    ELSE [b |-> [b EXCEPT !.state = "Solved", !.krylov = @ + 1],
          outcome |-> IF converged THEN "Success" ELSE "IterationFailed",
          ran |-> TRUE]

\* An update_system that runs the analysis again for the new values.
update_systemReanalyse(b, newValues, newRhs) ==
    IF b.state \notin {"Solved", "PreconditionerReady"} THEN Reject(b)
    ELSE [b |-> [b EXCEPT !.state = "AnalysisDone", !.values = newValues,
                          !.rhs = newRhs, !.prec = "none",
                          !.analyses = @ + 1],
          outcome |-> "Ok", ran |-> TRUE]

\* update_system(vals, b): Solved / PreconditionerReady -> AnalysisDone with
\* the new values; the analysis is not repeated.
update_system(b, newValues, newRhs) ==
    IF b.state \notin {"Solved", "PreconditionerReady"} THEN Reject(b)
    ELSE [b |-> [b EXCEPT !.state = "AnalysisDone", !.values = newValues,
                          !.rhs = newRhs, !.prec = "none"],
          outcome |-> "Ok", ran |-> TRUE]

NoBeCall == [op |-> "none", outcome |-> "none"]

InitBackend ==
    /\ backend = NewBackend
    /\ beTrace = << >>
    /\ beCall = NoBeCall

IdleBackend == InitBackend

\* What every lifecycle call does with the result r of its operation.
Called(op, r, args) ==
    /\ r.ran => Len(beTrace) < MaxOps
    /\ backend' = r.b
    /\ beTrace' = IF r.ran THEN Append(beTrace, op) ELSE beTrace
    /\ beCall' = [op |-> op, outcome |-> r.outcome, pre |-> backend, args |-> args]
    /\ UNCHANGED notBackend

CallInitialize ==
    \E vals \in Vals, ok \in BOOLEAN :
        Called("initialize", initialize(backend, vals, ok), <<vals>>)

CallAnalyseMatrix ==
    \E perm \in Perms, ok \in BOOLEAN :
        Called("analyse_matrix", analyse_matrix(backend, perm, ok), << >>)

CallCreatePreconditioner ==
    \E ok \in BOOLEAN :
        Called("create_preconditioner", create_preconditioner(backend, ok), << >>)

CallSolveSystem ==
    \E converged \in BOOLEAN :
        Called("solve_system", solve_system(backend, converged), << >>)

CallUpdateSystem ==
    \E newValues \in Vals, newRhs \in Vals :
        Called("update_system", update_system(backend, newValues, newRhs),
               <<newValues, newRhs>>)

NextBackend ==
    \/ CallInitialize
    \/ CallAnalyseMatrix
    \/ CallCreatePreconditioner
    \/ CallSolveSystem
    \/ CallUpdateSystem

(***************************************************************************)
(* Reorder engine                                                          *)
(***************************************************************************)
ReorderNb  == 4    \* Nb: block rows of the pattern handed to the engine
MaxOffDiag == 5    \* off-diagonal blocks of the pattern

RRows      == 0 .. (ReorderNb - 1)
Strategies == {"level_scheduling", "graph_coloring", "none"}

\* A sparsity pattern is the set of the positions <<row, column>> that hold
\* a block. A valid pattern has every diagonal block.
Diagonal    == {<<i, i>> : i \in RRows}
OffDiagonal == {q \in RRows \X RRows : q[1] # q[2]}
IsPattern(p) ==
    /\ p \subseteq RRows \X RRows
    /\ Diagonal \subseteq p
    /\ Cardinality(p \ Diagonal) <= MaxOffDiag

MaxOf(S) == CHOOSE m \in S : \A x \in S : x <= m

\* Level scheduling: level = one plus the maximum level of the strictly-lower
\* neighbours; a row with no lower neighbour gets level 0.
RECURSIVE LevelOf(_, _)
LevelOf(p, i) ==
    LET lower == {j \in RRows : j < i /\ <<i, j>> \in p}
    IN  IF lower = {} THEN 0 ELSE 1 + MaxOf({LevelOf(p, j) : j \in lower})

\* Greedy colouring of the symmetric adjacency graph, rows taken in index
\* order: a row gets the least colour none of its coloured neighbours has.
RECURSIVE ColorOf(_, _)
ColorOf(p, i) ==
    LET used == {ColorOf(p, j) :
                    j \in {k \in RRows : k < i /\ (<<i, k>> \in p \/ <<k, i>> \in p)}}
    IN  CHOOSE c \in 0 .. ReorderNb : c \notin used /\ \A d \in 0 .. (c - 1) : d \in used

\* The group (level or colour) of every row; one group for strategy none.
GroupOf(p, strategy) ==
    [i \in RRows |->
        CASE strategy = "level_scheduling" -> LevelOf(p, i)
          [] strategy = "graph_coloring"   -> ColorOf(p, i)
          [] OTHER                         -> 0]

\* A group count that misses the last group.
NumGroupsShort(grp) == MaxOf({grp[i] : i \in RRows})

NumGroups(grp) == 1 + MaxOf({grp[i] : i \in RRows})

\* The rows i, i+1, .. of group g in index order.
RECURSIVE RowsOfGroup(_, _, _)
RowsOfGroup(grp, g, i) ==
    IF i = ReorderNb THEN << >>
    ELSE (IF grp[i] = g THEN << i >> ELSE << >>) \o RowsOfGroup(grp, g, i + 1)

\* The rows in their new order: group after group, from group g on.
RECURSIVE OrderedRows(_, _, _)
OrderedRows(grp, g, numGroups) ==
    IF g >= numGroups THEN << >>
    ELSE RowsOfGroup(grp, g, 0) \o OrderedRows(grp, g + 1, numGroups)

\* The two arrays are filled position by position from the ordered rows:
\* fromOrder[pos] = row, toOrder[row] = pos. Both start as zeroed arrays of
\* Nb entries.
RECURSIVE FillOrders(_, _, _)
FillOrders(rows, pos, acc) ==
    IF pos > Len(rows) THEN acc
    ELSE FillOrders(rows, pos + 1,
                    [fromOrder |-> [acc.fromOrder EXCEPT ![pos - 1] = rows[pos]],
                     toOrder   |-> [acc.toOrder EXCEPT ![rows[pos]] = pos - 1]])

\* The analysis of one pattern: groups, group boundaries, permutation.
Reorder(p, strategy) ==
    LET grp  == GroupOf(p, strategy)
        rows == OrderedRows(grp, 0, NumGroups(grp))
        perm == FillOrders(rows, 1, [fromOrder |-> [i \in RRows |-> 0],
                                     toOrder   |-> [i \in RRows |-> 0]])
    IN  [groups |-> grp, numGroups |-> NumGroups(grp),
         fromOrder |-> perm.fromOrder, toOrder |-> perm.toOrder]

IdleReorder == reorder = [done |-> FALSE]

InitReorder ==
    \E d \in SUBSET OffDiagonal, st \in Strategies :
        /\ IsPattern(d \cup Diagonal)
        /\ reorder = [done |-> FALSE, pattern |-> d \cup Diagonal, strategy |-> st]

\* analyse_matrix on the pattern with the selected strategy.
RunReorder ==
    /\ ~reorder.done
    /\ LET res == Reorder(reorder.pattern, reorder.strategy)
       IN  reorder' = [done |-> TRUE, pattern |-> reorder.pattern,
                       strategy |-> reorder.strategy,
                       groups |-> res.groups, numGroups |-> res.numGroups,
                       fromOrder |-> res.fromOrder, toOrder |-> res.toOrder]
    /\ UNCHANGED notReorder

NextReorder == RunReorder

(***************************************************************************)
(* The Krylov loop of solve_system                                         *)
(***************************************************************************)
MaxIt   == 3     \* maxit of the backend is 0..MaxIt
MaxNorm == 2     \* residual norms are 0..MaxNorm, the norm of b is 1..MaxNorm

Norms == 0 .. MaxNorm

\* Convergence check: ||r|| / ||b|| <= relativeTolerance or
\* ||r|| <= absoluteTolerance. The relative tolerance is k.rel halves.
Converged(k, norm) ==
    \/ norm * 2 <= k.rel * k.bnorm
    \/ norm <= k.abs

\* A loop test that lets the iteration with number maxit + 1 run.
LoopContinuesInclusive(k) == k.it <= k.maxit

\* The loop is bounded by the maximum iteration count.
LoopContinues(k) == k.it < k.maxit

\* One iteration: the scalar recurrences either break down (|rho| or |omega|
\* below epsilon: the call reports non-convergence) or give the next
\* residual, whose norm is checked once.
Iterate(k, norm, breakdown) ==
    IF breakdown
       THEN [k EXCEPT !.it = @ + 1, !.breakdown = TRUE, !.pc = "exit"]
       ELSE IF Converged(k, norm)
               THEN [k EXCEPT !.it = @ + 1, !.norm = norm, !.converged = TRUE,
                              !.pc = "exit"]
               ELSE [k EXCEPT !.it = @ + 1, !.norm = norm]

\* The result of the call: iterations used, final residual norm, converged
\* flag; reaching maxit is reported through the flag and the status.
Finish(k) ==
    [k EXCEPT !.pc = "returned",
              !.result = [converged |-> k.converged, iterations |-> k.it,
                          norm |-> k.norm],
              !.status = IF k.converged THEN "Success" ELSE "IterationFailed"]

IdleBicg == bicg = [pc |-> "idle"]

\* solve_system has been called on a backend constructed with maxit and the
\* tolerances; r is the residual of the initial guess.
InitBicg ==
    \E maxit \in 0 .. MaxIt, rel \in 0 .. 1, abs \in 0 .. 1,
       bnorm \in 1 .. MaxNorm, r \in Norms :
        bicg = [pc |-> "loop", maxit |-> maxit, rel |-> rel, abs |-> abs,
                bnorm |-> bnorm, norm |-> r, it |-> 0, converged |-> FALSE,
                breakdown |-> FALSE, result |-> << >>, status |-> "none"]

BicgIterate ==
    /\ bicg.pc = "loop"
    /\ LoopContinues(bicg)
    /\ \E norm \in Norms, breakdown \in BOOLEAN :
          bicg' = Iterate(bicg, norm, breakdown)
    /\ UNCHANGED notBicg

BicgReturn ==
    /\ \/ bicg.pc = "exit"
       \/ bicg.pc = "loop" /\ ~LoopContinues(bicg)
    /\ bicg' = Finish(bicg)
    /\ UNCHANGED notBicg

NextBicg == BicgIterate \/ BicgReturn

(***************************************************************************)
(* sortNncAndApplyEditnnc                                                  *)
(***************************************************************************)
MaxNnc  == 3     \* entries of nncData
MaxEdit == 2     \* entries of editnncData

NncCells  == 1 .. 2
CellPairs == NncCells \X NncCells

\* Opm::NNCdata(cell1, cell2, trans)
NNCdata(c1, c2, t) == [cell1 |-> c1, cell2 |-> c2, trans |-> t]

\* A comparison that looks at cell1 only.
nncLessCell1Only(d1, d2) == d1.cell1 < d2.cell1

\* auto nncLess = [](const NNCdata& d1, const NNCdata& d2) { ... }
nncLess(d1, d2) ==
    \/ d1.cell1 < d2.cell1
    \/ d1.cell1 = d2.cell1 /\ d1.cell2 < d2.cell2

\* std::sort(nncData.begin(), nncData.end(), nncLess): some rearrangement of
\* the entries that is ordered by nncLess; the sort is not stable, entries
\* that compare equal come out in any order.
StdSort(v) ==
    {w \in {[i \in DOMAIN v |-> v[q[i]]] : q \in Permutations(DOMAIN v)} :
        \A i, j \in DOMAIN w : i < j => ~nncLess(w[j], w[i])}

\* std::lower_bound(first, last, value, nncLess) on positions of v (last is
\* nncData.end(), position Len(v) + 1): the halving search of the library.
RECURSIVE LowerBoundFrom(_, _, _, _)
LowerBoundFrom(v, first, len, value) ==
    IF len <= 0 THEN first
    ELSE LET half == len \div 2
             mid  == first + half
         IN  IF nncLess(v[mid], value)
                THEN LowerBoundFrom(v, mid + 1, len - half - 1, value)
                ELSE LowerBoundFrom(v, first, half, value)

lower_bound(v, first, value) ==
    LowerBoundFrom(v, first, Len(v) + 1 - first, value)

\* while (candidate != end && candidate->cell1 == edit.cell1
\*        && candidate->cell2 == edit.cell2) { candidate->trans *= edit.trans; ++candidate; }
RECURSIVE ApplyFrom(_, _, _)
ApplyFrom(v, candidate, edit) ==
    IF /\ candidate # Len(v) + 1
       /\ v[candidate].cell1 = edit.cell1
       /\ v[candidate].cell2 = edit.cell2
       THEN ApplyFrom([v EXCEPT ![candidate].trans = @ * edit.trans],
                      candidate + 1, edit)
       ELSE [v |-> v, candidate |-> candidate]

\* printNncWarning(edit.cell1, edit.cell2); continue;
Warned(s, edit, candidate) ==
    [s EXCEPT !.warnings = Append(@, [edit |-> s.next, c1 |-> edit.cell1,
                                      c2 |-> edit.cell2]),
              !.candidate = candidate, !.next = @ + 1]

\* The end of an iteration that leaves candidate after the entries it edited.
FinishEditNoRewind(s, v, firstCandidate, candidate) ==
    [s EXCEPT !.nncData = v, !.candidate = candidate, !.next = @ + 1]

\* candidate = firstCandidate;  (start with the first match in the next
\* iteration to catch the case where the next EDITNNC is for the same pair)
FinishEdit(s, v, firstCandidate, candidate) ==
    [s EXCEPT !.nncData = v, !.candidate = firstCandidate, !.next = @ + 1]

\* The iteration from line 58 on; mismatch is the outcome of the test
\* candidate->cell1 != edit.cell1 || candidate->cell2 != edit.cell2.
SearchAndApply(s, edit, mismatch) ==
    LET end  == Len(s.nncData) + 1
        cand == IF mismatch THEN lower_bound(s.nncData, s.candidate, edit)
                            ELSE s.candidate
    IN  IF mismatch /\ cand = end /\ s.log
           THEN Warned(s, edit, cand)
           ELSE LET a == ApplyFrom(s.nncData, cand, edit)
                IN  FinishEdit(s, a.v, cand, a.candidate)

\* One iteration of  for (const auto& edit : editnncData).
\* With candidate == nncData.end() and log false the test of line 58 reads
\* candidate->cell1 and candidate->cell2 past the last entry: the read either
\* aborts the run (crash) or yields whatever is stored there (garbage).
EditStep(s, garbage, crash) ==
    LET edit == s.editnncData[s.next]
        end  == Len(s.nncData) + 1
    IN  IF s.candidate = end /\ s.log
           THEN Warned(s, edit, s.candidate)
        ELSE IF s.candidate = end
           THEN IF crash
                   THEN [s EXCEPT !.endDeref = TRUE, !.pc = "crashed"]
                   ELSE SearchAndApply([s EXCEPT !.endDeref = TRUE], edit,
                                       garbage # <<edit.cell1, edit.cell2>>)
        ELSE SearchAndApply(s, edit,
                            \/ s.nncData[s.candidate].cell1 # edit.cell1
                            \/ s.nncData[s.candidate].cell2 # edit.cell2)

IdleNnc == nnc = [pc |-> "idle"]

\* The arguments of one call. The trans of an entry is given by its place in
\* the argument (1, 2, .. for nncData and 2, 3, .. for editnncData), so that
\* entries of one pair can be told apart.
NncInputs ==
    UNION {[1 .. n -> CellPairs] : n \in 0 .. MaxNnc}

EditInputs ==
    UNION {[1 .. n -> CellPairs] : n \in 0 .. MaxEdit}

InitNnc ==
    \E v \in NncInputs, e \in EditInputs, log \in BOOLEAN :
        LET nncData     == [i \in DOMAIN v |-> NNCdata(v[i][1], v[i][2], i)]
            editnncData == [i \in DOMAIN e |-> NNCdata(e[i][1], e[i][2], i + 1)]
        IN  nnc = [pc |-> "called", nncData |-> nncData,
                   editnncData |-> editnncData, log |-> log,
                   candidate |-> 0, next |-> 1, warnings |-> << >>,
                   endDeref |-> FALSE,
                   nncDataIn |-> nncData, editnncDataIn |-> editnncData]

\* std::sort(...); auto candidate = nncData.begin();
NncSort ==
    /\ nnc.pc = "called"
    /\ \E w \in StdSort(nnc.nncData) :
          nnc' = [nnc EXCEPT !.nncData = w, !.candidate = 1, !.pc = "loop"]
    /\ UNCHANGED notNnc

NncEdit ==
    /\ nnc.pc = "loop"
    /\ nnc.next <= Len(nnc.editnncData)
    /\ LET pastEnd == nnc.candidate = Len(nnc.nncData) + 1 /\ ~nnc.log
       IN  \E garbage \in IF pastEnd THEN CellPairs \cup {<<0, 0>>} ELSE {<<0, 0>>},
              crash \in IF pastEnd THEN BOOLEAN ELSE {FALSE} :
                 nnc' = EditStep(nnc, garbage, crash)
    /\ UNCHANGED notNnc

NncReturn ==
    /\ nnc.pc = "loop"
    /\ nnc.next > Len(nnc.editnncData)
    /\ nnc' = [nnc EXCEPT !.pc = "returned"]
    /\ UNCHANGED notNnc

NextNnc == NncSort \/ NncEdit \/ NncReturn

(***************************************************************************)
(* LinearSolverPetsc::solve                                                *)
(***************************************************************************)
MaxKspIts == 2    \* ksp_max_it of the solver is 1..MaxKspIts

\* The names KSPTypeMap and PCTypeMap know.
KspTypeNames ==
    {"richardson", "chebyshev", "cg", "bicgs", "gmres", "fgmres", "dgmres",
     "gcr", "bcgs", "cgs", "tfqmr", "tcqmr", "cr", "preonly"}

PcTypeNames ==
    {"jacobi", "bjacobi", "sor", "eisenstat", "icc", "ilu", "asm", "gamg",
     "ksp", "composite", "lu", "cholesky", "none"}

\* KSPTypeMap::find / PCTypeMap::find: the name, else the default name, else
\* OPM_THROW. The result is the type found, or "throw".
FindType(names, default_type, type) ==
    IF type \in names THEN type
    ELSE IF default_type \in names THEN default_type
    ELSE "throw"

\* KSPConvergedReason: positive when converged, negative when diverged.
KspReasons ==
    [KSP_CONVERGED_RTOL |-> 2, KSP_CONVERGED_ATOL |-> 3,
     KSP_DIVERGED_ITS |-> -3, KSP_DIVERGED_DTOL |-> -4,
     KSP_DIVERGED_BREAKDOWN |-> -5]

\* A report whose flag follows the converged reason.
ReportFromReason(reason, its, residual) ==
    [converged |-> (KspReasons[reason] > 0), iterations |-> 0,
     residual_reduction |-> 0]

\* LinearSolverReport rep = {}; rep.converged = true; return rep;
\* reason, its and residual are locals of solve_system and are gone here.
MakeReport(reason, its, residual) ==
    [converged |-> TRUE, iterations |-> 0, residual_reduction |-> 0]

IdlePetsc == petsc = [pc |-> "idle"]

\* A solver constructed with ksp_type, pc_type and ksp_max_it, and one call
\* of solve on it.
InitPetsc ==
    \E ksp_type \in {"gmres", "cg", "bogus"}, pc_type \in {"sor", "ilu", "bogus"},
       maxits \in 1 .. MaxKspIts :
        petsc = [pc |-> "called", ksp_type_ |-> ksp_type, pc_type_ |-> pc_type,
                 maxits_ |-> maxits]

\* KSPTypeMap ksp(ksp_type_); ksp.find(ksp_type_); PCTypeMap pc(pc_type_);
\* pc.find(pc_type_); OEM_DATA t(size); to_petsc_mat; to_petsc_vec.
\* Every PETSc call goes through CHKERRXX, which throws on an error code.
PetscSetup ==
    /\ petsc.pc = "called"
    /\ \E petscError \in BOOLEAN :
          LET ksp_type == FindType(KspTypeNames, petsc.ksp_type_, petsc.ksp_type_)
              pc_type  == FindType(PcTypeNames, petsc.pc_type_, petsc.pc_type_)
          IN  petsc' =
                 IF ksp_type = "throw" \/ pc_type = "throw" \/ petscError
                    THEN [petsc EXCEPT !.pc = "thrown"]
                    ELSE [pc |-> "setup", ksp_type_ |-> petsc.ksp_type_,
                          pc_type_ |-> petsc.pc_type_, maxits_ |-> petsc.maxits_,
                          ksp_type |-> ksp_type, pc_type |-> pc_type]
    /\ UNCHANGED notPetsc

\* solve_system(t, ...): KSPSolve, then the reason, the iteration number and
\* the residual norm are fetched into locals (and printed).
PetscSolveSystem ==
    /\ petsc.pc = "setup"
    /\ \E petscError \in BOOLEAN, reason \in DOMAIN KspReasons,
          its \in 0 .. petsc.maxits_, residual \in 0 .. 1 :
          /\ reason = "KSP_DIVERGED_ITS" => its = petsc.maxits_
          /\ petsc' =
                IF petscError
                   THEN [petsc EXCEPT !.pc = "thrown"]
                   ELSE [pc |-> "solved", ksp_type_ |-> petsc.ksp_type_,
                         pc_type_ |-> petsc.pc_type_, maxits_ |-> petsc.maxits_,
                         ksp_type |-> petsc.ksp_type, pc_type |-> petsc.pc_type,
                         reason |-> reason, its |-> its, residual |-> residual]
    /\ UNCHANGED notPetsc

\* from_petsc_vec(solution, t.solution); the report; return.
PetscReturn ==
    /\ petsc.pc = "solved"
    /\ \E petscError \in BOOLEAN :
          petsc' =
             IF petscError
                THEN [petsc EXCEPT !.pc = "thrown"]
                ELSE [pc |-> "returned", ksp_type_ |-> petsc.ksp_type_,
                      pc_type_ |-> petsc.pc_type_, maxits_ |-> petsc.maxits_,
                      ksp_type |-> petsc.ksp_type, pc_type |-> petsc.pc_type,
                      reason |-> petsc.reason, its |-> petsc.its,
                      residual |-> petsc.residual,
                      rep |-> MakeReport(petsc.reason, petsc.its, petsc.residual)]
    /\ UNCHANGED notPetsc

NextPetsc == PetscSetup \/ PetscSolveSystem \/ PetscReturn

(***************************************************************************)
(* EclCpGridManager                                                        *)
(***************************************************************************)
MaxReleases     == 3    \* releaseEquilGrid calls made on one manager
MaxLoadBalances == 2    \* loadBalance calls made on one manager
MaxAccesses     == 2    \* equilGrid() / equilCartesianIndexMapper() calls

\* A pointer member holds the number of an object (1, 2, ..), NULL, or Wild:
\* the members have no initialiser, so before their first assignment they
\* hold whatever the storage held.
Wild == -1

PointerFields ==
    {"grid_", "equilGrid_", "cartesianIndexMapper_", "equilCartesianIndexMapper_"}

\* field = new Kind(...): a fresh object, not deleted yet.
NewObject(m, field, kind) ==
    [m EXCEPT !.objs = Append(@, [kind |-> kind, deletes |-> 0]),
              ![field] = Len(m.objs) + 1]

\* delete field: nothing for a null pointer. Deleting through a wild pointer
\* or deleting an object a second time is undefined: the run is aborted
\* (crash) or goes on.
DeleteObject(m, field, crash) ==
    LET ptr == m[field]
    IN  IF m.pc = "crashed" \/ ptr = NULL THEN m
        ELSE IF ptr = Wild
           THEN IF crash THEN [m EXCEPT !.pc = "crashed"] ELSE m
        ELSE LET d == [m EXCEPT !.objs[ptr].deletes = @ + 1]
             IN  IF m.objs[ptr].deletes >= 1 /\ crash
                    THEN [d EXCEPT !.pc = "crashed"]
                    ELSE d

\* field = 0;
SetNull(m, field) ==
    IF m.pc = "crashed" THEN m ELSE [m EXCEPT ![field] = NULL]

\* void createGrids_(): the simulation grid, the EQUIL grid and the EQUIL
\* Cartesian index mapper are created.
createGrids_(m) ==
    [NewObject(NewObject(NewObject(m, "grid_", "Grid"),
                         "equilGrid_", "EquilGrid"),
               "equilCartesianIndexMapper_", "EquilCartesianIndexMapper")
        EXCEPT !.pc = "created"]

\* void loadBalance(): with MPI, rank 0 of a run with more than one process
\* calls std::abort(); otherwise the Cartesian index mapper of the
\* simulation grid is created.
loadBalance(m, haveMpi, mpiRank, mpiSize) ==
    IF haveMpi /\ mpiRank = 0 /\ mpiSize > 1
       THEN [m EXCEPT !.pc = "aborted"]
       ELSE [NewObject(m, "cartesianIndexMapper_", "CartesianIndexMapper")
                EXCEPT !.loadBalances = @ + 1]

\* const EquilGrid& equilGrid() const { return *equilGrid_; } and
\* equilCartesianIndexMapper(): the pointer is dereferenced. After a release
\* it is null: the caller's use of the reference aborts the run or goes on.
Access(m, field, crash) ==
    LET ptr == m[field]
    IN  IF ptr \in {NULL, Wild} \/ m.objs[ptr].deletes >= 1
           THEN IF crash THEN [m EXCEPT !.pc = "crashed", !.accesses = @ + 1]
                         ELSE [m EXCEPT !.accesses = @ + 1]
           ELSE [m EXCEPT !.accesses = @ + 1]

\* A release that deletes both objects and leaves the pointers as they are.
releaseKeepPointers(m, crash) ==
    LET a == DeleteObject(m, "equilGrid_", crash)
        b == DeleteObject(a, "equilCartesianIndexMapper_", crash)
    IN  [b EXCEPT !.releases = @ + 1]

\* void releaseEquilGrid()
releaseEquilGrid(m, crash) ==
    LET a == SetNull(DeleteObject(m, "equilGrid_", crash), "equilGrid_")
        b == SetNull(DeleteObject(a, "equilCartesianIndexMapper_", crash),
                     "equilCartesianIndexMapper_")
    IN  [b EXCEPT !.releases = @ + 1]

\* ~EclCpGridManager()
Destructor(m, crash) ==
    LET a == DeleteObject(m, "cartesianIndexMapper_", crash)
        b == DeleteObject(a, "equilCartesianIndexMapper_", crash)
        c == DeleteObject(b, "grid_", crash)
        d == DeleteObject(c, "equilGrid_", crash)
    IN  IF d.pc = "crashed" THEN d ELSE [d EXCEPT !.pc = "destroyed"]

IdleGridMgr == gridMgr = [pc |-> "idle"]

\* The manager as the inherited constructor leaves it before createGrids_
\* runs: four pointers that were never assigned.
InitGridMgr ==
    \E g, e, c, q \in {NULL, Wild} :
        gridMgr = [pc |-> "constructed", grid_ |-> g, equilGrid_ |-> e,
                   cartesianIndexMapper_ |-> c, equilCartesianIndexMapper_ |-> q,
                   objs |-> << >>, releases |-> 0, loadBalances |-> 0,
                   accesses |-> 0, last |-> "none"]

CallCreateGrids ==
    /\ gridMgr.pc = "constructed"
    /\ gridMgr' = [createGrids_(gridMgr) EXCEPT !.last = "createGrids_"]
    /\ UNCHANGED notGridMgr

CallLoadBalance ==
    /\ gridMgr.pc = "created"
    /\ gridMgr.loadBalances < MaxLoadBalances
    /\ \E haveMpi \in BOOLEAN, mpiRank \in 0 .. 1, mpiSize \in 1 .. 2 :
          /\ mpiRank < mpiSize
          /\ (~haveMpi) => (mpiRank = 0 /\ mpiSize = 1)
          /\ gridMgr' = [loadBalance(gridMgr, haveMpi, mpiRank, mpiSize)
                            EXCEPT !.last = "loadBalance"]
    /\ UNCHANGED notGridMgr

CallReleaseEquilGrid ==
    /\ gridMgr.pc = "created"
    /\ gridMgr.releases < MaxReleases
    /\ \E crash \in BOOLEAN :
          gridMgr' = [releaseEquilGrid(gridMgr, crash)
                         EXCEPT !.last = "releaseEquilGrid"]
    /\ UNCHANGED notGridMgr

CallEquilAccessor ==
    /\ gridMgr.pc = "created"
    /\ gridMgr.accesses < MaxAccesses
    /\ \E field \in {"equilGrid_", "equilCartesianIndexMapper_"}, crash \in BOOLEAN :
          gridMgr' = [Access(gridMgr, field, crash) EXCEPT !.last = field]
    /\ UNCHANGED notGridMgr

Destroy ==
    /\ gridMgr.pc = "created"
    /\ \E crash \in BOOLEAN :
          gridMgr' = [Destructor(gridMgr, crash) EXCEPT !.last = "destructor"]
    /\ UNCHANGED notGridMgr

NextGridMgr ==
    \/ CallCreateGrids
    \/ CallLoadBalance
    \/ CallReleaseEquilGrid
    \/ CallEquilAccessor
    \/ Destroy

(***************************************************************************)
(* Specifications                                                          *)
(***************************************************************************)
NextSort == CallSortBlockedRow

IdleOld == IdleSort /\ IdleHeap /\ IdleBlock /\ IdleInv /\ IdleBackend

IdleNew == IdleReorder /\ IdleBicg /\ IdleNnc /\ IdlePetsc /\ IdleGridMgr

SortInit == InitSort /\ IdleHeap /\ IdleBlock /\ IdleInv /\ IdleBackend /\ IdleNew

SpecSort == SortInit /\ [][NextSort]_vars

HeapInit == IdleSort /\ InitHeap /\ IdleBlock /\ IdleInv /\ IdleBackend /\ IdleNew

SpecHeap == HeapInit /\ [][NextHeap]_vars

BlockInit == IdleSort /\ IdleHeap /\ InitBlock /\ IdleInv /\ IdleBackend /\ IdleNew

SpecBlock == BlockInit /\ [][NextBlock]_vars

InvInit == IdleSort /\ IdleHeap /\ IdleBlock /\ InitInv /\ IdleBackend /\ IdleNew

SpecInv == InvInit /\ [][NextInv]_vars

BackendInit == IdleSort /\ IdleHeap /\ IdleBlock /\ IdleInv /\ InitBackend /\ IdleNew

SpecBackend == BackendInit /\ [][NextBackend]_vars

ReorderInit == IdleOld /\ InitReorder /\ IdleBicg /\ IdleNnc /\ IdlePetsc /\ IdleGridMgr

SpecReorder == ReorderInit /\ [][NextReorder]_vars

BicgInit == IdleOld /\ IdleReorder /\ InitBicg /\ IdleNnc /\ IdlePetsc /\ IdleGridMgr

NncInit == IdleOld /\ IdleReorder /\ IdleBicg /\ InitNnc /\ IdlePetsc /\ IdleGridMgr

SpecNnc == NncInit /\ [][NextNnc]_vars

PetscInit == IdleOld /\ IdleReorder /\ IdleBicg /\ IdleNnc /\ InitPetsc /\ IdleGridMgr

SpecPetsc == PetscInit /\ [][NextPetsc]_vars

GridMgrInit == IdleOld /\ IdleReorder /\ IdleBicg /\ IdleNnc /\ IdlePetsc /\ InitGridMgr

SpecGridMgr == GridMgrInit /\ [][NextGridMgr]_vars

\* The loop is sequential code of one thread: it keeps taking its next step.
SpecBicg == BicgInit /\ [][NextBicg]_vars /\ WF_vars(NextBicg)

(***************************************************************************)
(* Claims about allocate / free / soft copy (SpecHeap)                     *)
(***************************************************************************)
\* C5: after res = soft_copyBlockedMatrix(mat), res has the Nb and nnzbs of
\* mat and its three arrays are the very arrays of mat (the copy allocated
\* none); this holds in every state until one of the two is freed, so a store
\* made through one of them is read back through the other.
C5_SoftCopyAliases ==
    /\ heapCall.op = "soft_copy" => Len(heap.arrays) = heapCall.arraysBefore
    /\ \A d \in Handle :
          copyOf[d] # "none" =>
             /\ StructOf(d).Nb = StructOf(copyOf[d]).Nb
             /\ StructOf(d).nnzbs = StructOf(copyOf[d]).nnzbs
             /\ \A f \in Field :
                   /\ StructOf(d)[f] = StructOf(copyOf[d])[f]
                   /\ ArrayOf(heap, d, f).live =>
                         \A k \in 0 .. (ArrayOf(heap, d, f).len - 1) :
                            LoadCell(heap, d, f, k) = LoadCell(heap, copyOf[d], f, k)
             /\ (heapCall.op = "store" /\ heapCall.h \in {d, copyOf[d]}) =>
                   /\ LoadCell(heap, d, heapCall.f, heapCall.k) = heapCall.v
                   /\ LoadCell(heap, copyOf[d], heapCall.f, heapCall.k) = heapCall.v

\* Witness of C5: res is a soft copy of mat, neither has been freed, and a
\* store through mat changed a cell, which res reads back.
C5_Witness ==
    /\ copyOf["res"] = "mat"
    /\ heapCall.op = "store"
    /\ heapCall.h = "mat"
    /\ heapCall.v = 1
    /\ \E k \in 0 .. (ArrayOf(heap, "res", heapCall.f).len - 1) :
          k # heapCall.k /\ LoadCell(heap, "res", heapCall.f, k) = 0
    /\ LoadCell(heap, "res", heapCall.f, heapCall.k) = 1

\* C6: freeBlockedMatrix releases the three arrays of the matrix and sets the
\* caller's handle to NULL; a further freeBlockedMatrix on that same handle
\* releases nothing and changes nothing.
C6_FreeIdempotent ==
    [][ heapCall'.op = "free" =>
          LET h == heapCall'.h
              m == heap.handles[h]
          IN  IF m = NULL
                 THEN heap' = heap /\ copyOf' = copyOf
                 ELSE (\A f \in Field : heap.arrays[heap.structs[m][f]].live) =>
                         /\ heap'.handles[h] = NULL
                         /\ ~heap'.structs[m].live
                         /\ \A f \in Field :
                               /\ ~heap'.arrays[heap.structs[m][f]].live
                               /\ heap'.arrays[heap.structs[m][f]].released
                                     = heap.arrays[heap.structs[m][f]].released + 1
      ]_vars

\* Witness of C6: mat was allocated and freed (its arrays are released once),
\* and freeBlockedMatrix(&mat) was then called again on the NULL handle.
C6_Witness ==
    /\ heapCall.op = "free"
    /\ heapCall.h = "mat"
    /\ heapCall.wasNull
    /\ Len(heap.structs) = 1
    /\ ~heap.structs[1].live
    /\ \A a \in 1 .. 3 : ~heap.arrays[a].live /\ heap.arrays[a].released = 1

\* C14: in every sequence of allocateBlockedMatrix, soft_copyBlockedMatrix
\* and freeBlockedMatrix calls no array is released more than once; freeing
\* a matrix and its soft copy (in either order) releases the shared
\* nnzValues, colIndices and rowPointers arrays exactly once.
C14_ReleasedOnce ==
    \A a \in DOMAIN heap.arrays : heap.arrays[a].released <= 1

\* C10 as stated: allocate(Nb, nnzb) returns a matrix whose Nb and nnzbs equal
\* the arguments and whose storage is zero-filled: every value block, column
\* index and row pointer reads as 0 before the first write.
C10_ZeroFilled ==
    heapCall.op = "allocate" =>
        /\ StructOf("mat").Nb = heapCall.Nb
        /\ StructOf("mat").nnzbs = heapCall.nnzbs
        /\ \A f \in Field :
              \A k \in 0 .. (ArrayOf(heap, "mat", f).len - 1) :
                  LoadCell(heap, "mat", f, k) = 0

\* C10 as amended: allocate(Nb, nnzbs) with Nb >= 0, nnzbs >= 0 returns a matrix
\* whose Nb and nnzbs equal the arguments and whose nnzValues, colIndices and
\* rowPointers are three distinct, freshly allocated arrays of nnzbs, nnzbs and
\* Nb + 1 entries; the entries are indeterminate (not zero-filled).
C10_AllocateSized ==
    heapCall.op = "allocate" =>
        LET m == StructOf("mat") IN
        /\ m.live
        /\ m.Nb = heapCall.Nb
        /\ m.nnzbs = heapCall.nnzbs
        /\ heap.arrays[m.nnzValues].len = heapCall.nnzbs
        /\ heap.arrays[m.colIndices].len = heapCall.nnzbs
        /\ heap.arrays[m.rowPointers].len = heapCall.Nb + 1
        /\ Cardinality({m[f] : f \in Field}) = 3
        /\ Len(heap.arrays) = heapCall.arraysBefore + 3
        /\ \A f \in Field :
              /\ m[f] > heapCall.arraysBefore
              /\ heap.arrays[m[f]].live
              /\ heap.arrays[m[f]].released = 0
              /\ \A k \in 0 .. (heap.arrays[m[f]].len - 1) :
                    heap.arrays[m[f]].cells[k] \in Cell

\* Witness of C10: an allocation with Nb >= 1 and nnzbs >= 1 whose fresh
\* storage does not read as zero.
C10_Witness ==
    /\ heapCall.op = "allocate"
    /\ heapCall.Nb >= 1
    /\ heapCall.nnzbs >= 1
    /\ LoadCell(heap, "mat", "colIndices", 0) # 0
    /\ LoadCell(heap, "mat", "rowPointers", heapCall.Nb) # 0

(***************************************************************************)
(* Claims about the block kernels (SpecBlock)                              *)
(***************************************************************************)
\* The sum over k of b[row][k] * c[k][col] for row-major blocks b and c.
RowMajorProduct(b, c, row, col) ==
    b[BLOCK_SIZE * row + 0] * c[BLOCK_SIZE * 0 + col]
  + b[BLOCK_SIZE * row + 1] * c[BLOCK_SIZE * 1 + col]
  + b[BLOCK_SIZE * row + 2] * c[BLOCK_SIZE * 2 + col]

\* C9: for blocks a, b, c that do not alias each other, blockMultSub(a, b, c)
\* leaves a[row][col] = a_old[row][col] - sum_k b[row][k] * c[k][col] (row-major),
\* leaves b and c unchanged, and its result is a_old minus the block that
\* blockMult(b, c, tmp) writes to tmp.
C9_MultSub ==
    (/\ blkCall.op = "blockMultSub"
     /\ Cardinality({blkCall.a, blkCall.b, blkCall.c}) = 3) =>
        LET old == blkCall.old
            tmp == blockMult(old, blkCall.b, blkCall.c, blkCall.a)[blkCall.a]
        IN  /\ \A row \in Dim, col \in Dim :
                  blk[blkCall.a][BLOCK_SIZE * row + col]
                     = old[blkCall.a][BLOCK_SIZE * row + col]
                          - RowMajorProduct(old[blkCall.b], old[blkCall.c], row, col)
            /\ blk[blkCall.b] = old[blkCall.b]
            /\ blk[blkCall.c] = old[blkCall.c]
            /\ \A p \in BlockIdx : blk[blkCall.a][p] = old[blkCall.a][p] - tmp[p]

\* Witness of C9: a call on three different blocks where b has two entries in
\* one row, c is not symmetric, and the call changed a.
C9_Witness ==
    /\ blkCall.op = "blockMultSub"
    /\ Cardinality({blkCall.a, blkCall.b, blkCall.c}) = 3
    /\ blkCall.old[2][0] # 0
    /\ blkCall.old[2][1] # 0
    /\ blkCall.old[3][1] # 0
    /\ blkCall.old[3][3] = 0
    /\ blk[1] # blkCall.old[1]

(***************************************************************************)
(* Claims about blockInvert3x3 (SpecInv)                                   *)
(***************************************************************************)
IdentityBlock == [p \in BlockIdx |-> IF p \div BLOCK_SIZE = p % BLOCK_SIZE THEN 1 ELSE 0]

IsFinite(x) == x.kind = "finite"

\* C7: inverting a 3x3 block whose determinant is zero, such as the all-zero
\* block, signals NumericBreakdown instead of returning a result:
\* blockInvert3x3 never produces an inverse obtained by dividing by such a
\* determinant.
C7_SingularSignalled ==
    (invCall.done /\ invCall.det = 0) =>
        /\ invCall.breakdown
        /\ ~invCall.returned

\* C8: the nine cofactor expressions and the determinant computed by
\* blockInvert3x3 satisfy adj(M) * M = det(M) * I under the row-major product of
\* blockMult; for det(M) # 0 every res[p] is the cofactor expression divided
\* by det(M), so that multiply(invert(M), M) is the identity block.
C8_AdjugateIdentity ==
    invCall.done =>
        LET prod == blockMult([i \in BlockId |->
                                  IF i = 1 THEN invCall.cof
                                  ELSE IF i = 2 THEN invCall.mat ELSE ZeroBlock],
                              1, 2, 3)[3]
        IN  /\ \A p \in BlockIdx : prod[p] = invCall.det * IdentityBlock[p]
            /\ invCall.det # 0 =>
                  \A p \in BlockIdx :
                     /\ IsFinite(invCall.res[p])
                     /\ invCall.res[p].num = invCall.cof[p]
                     /\ invCall.res[p].den = invCall.det

\* Witness of C8: the inverse of a block without zero entries whose
\* determinant is neither 0 nor +-1.
C8_Witness ==
    /\ invCall.done
    /\ invCall.returned
    /\ invCall.det = -4
    /\ \A p \in BlockIdx : invCall.mat[p] # 0
    /\ invCall.mat[1] # invCall.mat[3]

(***************************************************************************)
(* Claims about the backend lifecycle (SpecBackend)                        *)
(***************************************************************************)
LastOp == IF beTrace = << >> THEN "none" ELSE beTrace[Len(beTrace)]

\* C2: solve_system called before a preconditioner has been built for the
\* current values (state Uninitialized, Initialized or AnalysisDone, the state
\* right after update_system included) is rejected with an error outcome and
\* the Krylov iteration is not executed.
C2_SolveNeedsPreconditioner ==
    (/\ beCall.op = "solve_system"
     /\ beCall.pre.state \in {"Uninitialized", "Initialized", "AnalysisDone"}) =>
        /\ beCall.outcome = "ContractError"
        /\ backend.krylov = beCall.pre.krylov
        /\ backend = beCall.pre

\* Witness of C2: after a first solve and an update_system, solve_system is
\* called without a new preconditioner and is rejected.
C2_Witness ==
    /\ beCall.op = "solve_system"
    /\ beCall.pre.state = "AnalysisDone"
    /\ LastOp = "update_system"
    /\ backend.krylov = 1
    /\ backend.prec = "none"
    /\ beCall.outcome = "ContractError"

\* C3: update_system(newValues, newRhs) moves a backend from Solved or
\* PreconditionerReady back to AnalysisDone with the new values and never
\* re-runs the analysis: over any number of update / create_preconditioner /
\* solve cycles the analysis has run exactly once, and update_system leaves
\* fromOrder and toOrder unchanged.
C3_UpdateSkipsAnalysis ==
    /\ backend.analyses <= 1
    /\ backend.state \in {"AnalysisDone", "PreconditionerReady", "Solved"} =>
          backend.analyses = 1
    /\ (/\ beCall.op = "update_system"
        /\ beCall.pre.state \in {"Solved", "PreconditionerReady"}) =>
           /\ beCall.outcome = "Ok"
           /\ backend.state = "AnalysisDone"
           /\ backend.values = beCall.args[1]
           /\ backend.rhs = beCall.args[2]
           /\ backend.fromOrder = beCall.pre.fromOrder
           /\ backend.toOrder = beCall.pre.toOrder
           /\ backend.analyses = beCall.pre.analyses

\* Witness of C3: the second update_system of an instance, after two solves,
\* with values that differ from the ones in place and a permutation that is
\* not the identity.
C3_Witness ==
    /\ beCall.op = "update_system"
    /\ beCall.pre.state = "Solved"
    /\ backend.krylov = 2
    /\ backend.values # beCall.pre.values
    /\ backend.fromOrder = [i \in Rows |-> (MaxRows - 1) - i]
    /\ backend.analyses = 1

\* The relative order of the lifecycle operations: what may be carried out
\* right after prev (none: nothing was carried out yet).
InOrder(prev, op) ==
    CASE prev = "none"                  -> op = "initialize"
      [] prev = "initialize"            -> op = "analyse_matrix"
      [] prev = "analyse_matrix"        -> op = "create_preconditioner"
      [] prev = "create_preconditioner" -> op \in {"solve_system", "update_system"}
      [] prev = "solve_system"          -> op = "update_system"
      [] prev = "update_system"         -> op = "create_preconditioner"

PreLastOp ==
    IF beCall.outcome \in {"Ok", "Success", "IterationFailed"}
       THEN (IF Len(beTrace) = 1 THEN "none" ELSE beTrace[Len(beTrace) - 1])
       ELSE LastOp

IsBijection(f) ==
    /\ DOMAIN f = RRows
    /\ \A i \in RRows : f[i] \in RRows
    /\ \A i, j \in RRows : i # j => f[i] # f[j]

\* C11: for every strategy (level scheduling, graph colouring, none) and
\* every valid sparsity pattern, fromOrder and toOrder produced by the
\* analysis are bijections on [0, Nb) with toOrder[fromOrder[i]] = i for all i.
C11_PermutationRoundTrip ==
    reorder.done =>
        /\ IsBijection(reorder.fromOrder)
        /\ IsBijection(reorder.toOrder)
        /\ \A i \in RRows : reorder.toOrder[reorder.fromOrder[i]] = i

\* Witness of C11: level scheduling found more than one level and produced
\* a permutation that moves rows.
C11_Witness ==
    /\ reorder.done
    /\ reorder.strategy = "level_scheduling"
    /\ reorder.numGroups >= 2
    /\ \E i \in RRows : reorder.fromOrder[i] # i
    /\ \E i \in RRows : reorder.toOrder[i] # reorder.fromOrder[i]

(***************************************************************************)
(* Claims about the Krylov loop (SpecBicg)                                 *)
(***************************************************************************)
BicgBounded ==
    bicg.pc # "idle" =>
        /\ bicg.it <= bicg.maxit
        /\ bicg.pc = "returned" =>
              /\ bicg.result.iterations <= bicg.maxit
              /\ bicg.status \in {"Success", "IterationFailed"}
              /\ (bicg.it = bicg.maxit /\ ~Converged(bicg, bicg.norm)) =>
                    /\ ~bicg.result.converged
                    /\ bicg.status = "IterationFailed"

\* C12: the solve loop is bounded by maxit: every solve_system call returns,
\* after at most maxit iterations; a call that reaches maxit without meeting
\* the tolerance returns normally with the converged flag false and a reported
\* iteration count that does not exceed maxit.
C12_BoundedByMaxit == []BicgBounded /\ <>(bicg.pc = "returned")

\* Witness of C12: a call that used all of its maxit >= 2 iterations with no
\* breakdown, never met the tolerance, and returned.
C12_Witness ==
    /\ bicg.pc = "returned"
    /\ bicg.maxit >= 2
    /\ bicg.it = bicg.maxit
    /\ ~bicg.breakdown
    /\ ~Converged(bicg, bicg.norm)
    /\ ~bicg.result.converged

(***************************************************************************)
(* Claims about sortNncAndApplyEditnnc (SpecNnc)                           *)
(***************************************************************************)
PairOf(d) == <<d.cell1, d.cell2>>

PairsOf(v) == {PairOf(v[i]) : i \in DOMAIN v}

\* The product of the trans of every edit for the pair pr.
RECURSIVE EditFactor(_, _)
EditFactor(edits, pr) ==
    IF edits = << >> THEN 1
    ELSE (IF PairOf(Head(edits)) = pr THEN Head(edits).trans ELSE 1)
            * EditFactor(Tail(edits), pr)

Ascending(v) == \A i, j \in DOMAIN v : i < j => ~nncLess(v[j], v[i])

\* C13: candidate differs from nncData.end() whenever candidate->cell1 or
\* candidate->cell2 is read, for all inputs (empty nncData, edits that sort
\* after the last NNC, several such edits in a row, log = false).
C13_NoEndDereference ==
    nnc.pc # "idle" => ~nnc.endDeref

\* C15: for an editnncData list in ascending (cell1, cell2) order, after the
\* call every NNC entry's trans is its original trans multiplied by the trans
\* of every edit with the same (cell1, cell2); entries with no matching edit
\* keep their trans.
C15_EditsApplied ==
    (nnc.pc = "returned" /\ Ascending(nnc.editnncDataIn)) =>
        /\ Len(nnc.nncData) = Len(nnc.nncDataIn)
        /\ \A k \in DOMAIN nnc.nncDataIn :
              \E j \in DOMAIN nnc.nncData :
                  /\ PairOf(nnc.nncData[j]) = PairOf(nnc.nncDataIn[k])
                  /\ nnc.nncData[j].trans
                        = nnc.nncDataIn[k].trans
                            * EditFactor(nnc.editnncDataIn, PairOf(nnc.nncDataIn[k]))

\* Witness of C15: two NNC entries of one pair and a third of another pair,
\* two consecutive edits for the first pair: both duplicates got both edits
\* and the third entry kept its trans.
C15_Witness ==
    /\ nnc.pc = "returned"
    /\ Len(nnc.nncData) = 3
    /\ Len(nnc.editnncDataIn) = 2
    /\ PairOf(nnc.editnncDataIn[1]) = PairOf(nnc.editnncDataIn[2])
    /\ \E i, j, k \in DOMAIN nnc.nncDataIn :
          /\ i # j
          /\ PairOf(nnc.nncDataIn[i]) = PairOf(nnc.editnncDataIn[1])
          /\ PairOf(nnc.nncDataIn[j]) = PairOf(nnc.editnncDataIn[1])
          /\ PairOf(nnc.nncDataIn[k]) # PairOf(nnc.editnncDataIn[1])
          /\ \E m \in DOMAIN nnc.nncData :
                nnc.nncData[m] = nnc.nncDataIn[k]
    /\ \E m \in DOMAIN nnc.nncData : nnc.nncData[m].trans >= 6

\* C18: after the call nncData is ordered non-decreasingly by (cell1, cell2)
\* in lexicographic order and its multiset of (cell1, cell2) pairs is that of
\* the input, for every edit list; editnncData is unchanged.
C18_SortedSameKeys ==
    nnc.pc = "returned" =>
        /\ \A i, j \in DOMAIN nnc.nncData :
              i < j =>
                 \/ nnc.nncData[i].cell1 < nnc.nncData[j].cell1
                 \/ /\ nnc.nncData[i].cell1 = nnc.nncData[j].cell1
                    /\ nnc.nncData[i].cell2 <= nnc.nncData[j].cell2
        /\ Len(nnc.nncData) = Len(nnc.nncDataIn)
        /\ \A pr \in CellPairs :
              Cardinality({i \in DOMAIN nnc.nncData : PairOf(nnc.nncData[i]) = pr})
                = Cardinality({i \in DOMAIN nnc.nncDataIn :
                                  PairOf(nnc.nncDataIn[i]) = pr})
        /\ nnc.editnncData = nnc.editnncDataIn

\* Witness of C18: an input that was not in order and held a pair twice,
\* with an edit that changed a trans and an edit that matched nothing.
C18_Witness ==
    /\ nnc.pc = "returned"
    /\ Len(nnc.nncDataIn) = 3
    /\ ~Ascending(nnc.nncDataIn)
    /\ \E i, j \in DOMAIN nnc.nncDataIn :
          i # j /\ PairOf(nnc.nncDataIn[i]) = PairOf(nnc.nncDataIn[j])
    /\ \E m \in DOMAIN nnc.nncData : nnc.nncData[m].trans > 3
    /\ \E e \in DOMAIN nnc.editnncDataIn :
          PairOf(nnc.editnncDataIn[e]) \notin PairsOf(nnc.nncDataIn)

\* C19: when log is true every edit whose (cell1, cell2) does not exist in
\* nncData produces the warning "Cannot edit NNC from c1 to c2 as it does
\* not exist" exactly once, and no warning is produced for an edit whose pair
\* exists in nncData.
C19_WarnsMissingOnly ==
    (nnc.pc = "returned" /\ nnc.log) =>
        \A e \in DOMAIN nnc.editnncDataIn :
            LET ws == {w \in DOMAIN nnc.warnings : nnc.warnings[w].edit = e}
            IN  IF PairOf(nnc.editnncDataIn[e]) \in PairsOf(nnc.nncDataIn)
                   THEN ws = {}
                   ELSE /\ Cardinality(ws) = 1
                        /\ \A w \in ws :
                              <<nnc.warnings[w].c1, nnc.warnings[w].c2>>
                                 = PairOf(nnc.editnncDataIn[e])

(***************************************************************************)
(* Claims about LinearSolverPetsc::solve (SpecPetsc)                       *)
(***************************************************************************)
\* C20: every call of LinearSolverPetsc::solve that returns normally reports
\* converged = true, whatever converged reason, iteration count and residual
\* solve_system obtained: the report of a solve that stopped at maxits or
\* diverged is the report of a converged one.
C20_AlwaysConverged ==
    petsc.pc = "returned" =>
        /\ petsc.rep.converged
        /\ petsc.rep = MakeReport("KSP_CONVERGED_RTOL", 0, 0)

\* Witness of C20: KSP stopped at maxits with a nonzero residual and the
\* call returned a report saying converged.
C20_Witness ==
    /\ petsc.pc = "returned"
    /\ petsc.reason = "KSP_DIVERGED_ITS"
    /\ petsc.its = petsc.maxits_
    /\ petsc.residual > 0
    /\ petsc.rep.converged

(***************************************************************************)
(* Claims about EclCpGridManager (SpecGridMgr)                             *)
(***************************************************************************)
DeletesOf(kind) ==
    {gridMgr.objs[i].deletes :
        i \in {j \in DOMAIN gridMgr.objs : gridMgr.objs[j].kind = kind}}

\* C21: for any number of releaseEquilGrid calls (zero or more) made after
\* createGrids_, followed by destruction of the manager, the EQUIL grid and
\* the EQUIL Cartesian index mapper are each deleted exactly once; a repeated
\* release and the destructor do not delete them again.
C21_EquilDeletedOnce ==
    gridMgr.pc \notin {"idle", "constructed"} =>
        /\ \A n \in DeletesOf("EquilGrid") : n <= 1
        /\ \A n \in DeletesOf("EquilCartesianIndexMapper") : n <= 1
        /\ gridMgr.pc = "destroyed" =>
              /\ DeletesOf("EquilGrid") = {1}
              /\ DeletesOf("EquilCartesianIndexMapper") = {1}

\* Witness of C21: releaseEquilGrid was called twice, then the manager was
\* destroyed; both EQUIL objects have been deleted once.
C21_Witness ==
    /\ gridMgr.pc = "destroyed"
    /\ gridMgr.releases >= 2
    /\ gridMgr.equilGrid_ = NULL
    /\ gridMgr.equilCartesianIndexMapper_ = NULL
    /\ DeletesOf("EquilGrid") = {1}
    /\ DeletesOf("EquilCartesianIndexMapper") = {1}
====
